---- MODULE Spec2Model ----
(***************************************************************************)
(* Model of tools/labs/vm_shutdown.py: the bulk shutdown of all running    *)
(* virtual machines through 'virsh' (list, shutdown, destroy), followed by *)
(* a poll loop with a timeout and an optional kill-on-timeout phase.       *)
(*                                                                         *)
(* The hypervisor is the environment: every 'virsh list' yields any list   *)
(* of distinct running machines or fails, every 'virsh shutdown' and       *)
(* 'virsh destroy' returns any return code.  The clock moves forward in    *)
(* Spec; SpecWallClock adds a wall clock that can be set back.             *)
(***************************************************************************)
EXTENDS Integers, Sequences, FiniteSets, TLC

\* ------------------------------------------------------------------ bounds
NumMachines == 2
MaxInterval == 2
MaxTimeout == 2
MaxOversleep == 1
MaxStart == 0

\* A sleep count the poll loop cannot exceed while the clock advances:
\* at most floor(timeout / interval) + 1 sleeps fit before t > timeout.
MaxSleeps == MaxTimeout + 2

Machines == 1..NumMachines

\* The empty line "" of the virsh output (a machine name is never empty).
Blank == 0

\* Return codes of subprocess.call: 0 is success, anything else an error.
ReturnCodes == {0, 1}

\* Exit status of the interpreter when an exception is not caught.
UncaughtExit == 1

\* Source lines at which the process can end.
LineQuery == 24
LineDispatchExit == 65
LineDestroyExit == 96
LineTimeoutExit == 99
LineSuccessExit == 107

VARIABLES
  pc,             \* position in the script
  options,        \* parsed command line (interval, timeout, kill, verbose, zenity)
  running_vms,    \* the list held by the variable running_vms
  any_errors,     \* the flag any_errors
  vm_i,           \* position of the running for-loop in running_vms
  now,            \* time.time()
  t0,             \* time stamp taken before the poll loop
  t,              \* elapsed time computed on the latest tick
  exitCode,       \* exit status of the process, -1 while it runs
  exitLine,       \* source line at which the process ended, 0 while it runs
  initial_vms,    \* result of the first list_running_vms()
  shutdownCount,  \* number of 'virsh shutdown' calls per machine
  shutdownFailed, \* machines whose 'virsh shutdown' returned non-zero
  destroyCount,   \* number of 'virsh destroy' calls per machine
  destroyFailed,  \* machines whose 'virsh destroy' returned non-zero
  listCalls,      \* number of 'virsh list' calls
  sleeps,         \* number of time.sleep calls
  ticks,          \* number of executions of the loop body
  timedOut,       \* some tick saw t > options.timeout with running_vms non-empty
  allDown         \* the loop condition found running_vms empty

vars == <<pc, options, running_vms, any_errors, vm_i, now, t0, t, exitCode,
          exitLine, initial_vms, shutdownCount, shutdownFailed, destroyCount,
          destroyFailed, listCalls, sleeps, ticks, timedOut, allDown>>

\* ------------------------------------------------------- list_running_vms
\* A string is modelled by the list of its lines, str.split("\n"): never an
\* empty list, the empty string being the single empty line.
RECURSIVE LStrip(_)
LStrip(s) ==
  IF Len(s) > 1 /\ Head(s) = Blank THEN LStrip(Tail(s)) ELSE s

RECURSIVE RStrip(_)
RStrip(s) ==
  IF Len(s) > 1 /\ s[Len(s)] = Blank THEN RStrip(SubSeq(s, 1, Len(s) - 1)) ELSE s

Strip(s) == RStrip(LStrip(s))

\* Lists of distinct machines, the order being the hypervisor's.
InjectiveSeqs ==
  UNION {{s \in [1..n -> Machines] : \A i, j \in 1..n : i # j => s[i] # s[j]}
         : n \in 0..NumMachines}

\* Mutant of ParseList: the test for the empty string is missing, and
\* "".split("\n") is the list of one empty name.
ParseListNoEmptyTest(output) == Strip(output)

\* Machine names are interchangeable, so the machines of the first list are
\* named in the order of that list; later lists are arbitrary.
FirstLists == {[i \in 1..n |-> i] : n \in 0..NumMachines}

\* Output of 'virsh list --state-running --name': one name per line and an
\* empty line at the end.
VirshListOutput(names) == names \o <<Blank, Blank>>

ParseList(output) ==
  LET as_string == Strip(output)
  IN  IF as_string = <<Blank>> THEN <<>> ELSE as_string

list_running_vms(names) == ParseList(VirshListOutput(names))

\* -------------------------------------------------------------------- Init
OptionSpace ==
  [interval : 1..MaxInterval, timeout : 0..MaxTimeout,
   kill : BOOLEAN, verbose : BOOLEAN, zenity : BOOLEAN]

Init ==
  /\ pc = "list"
  /\ options \in OptionSpace
  /\ running_vms = <<>>
  /\ any_errors = FALSE
  /\ vm_i = 1
  /\ now \in 1..(1 + MaxStart)  \* the clock reads some positive time
  /\ t0 = 0
  /\ t = 0
  /\ exitCode = -1
  /\ exitLine = 0
  /\ initial_vms = <<>>
  /\ shutdownCount = [m \in Machines |-> 0]
  /\ shutdownFailed = {}
  /\ destroyCount = [m \in Machines |-> 0]
  /\ destroyFailed = {}
  /\ listCalls = 0
  /\ sleeps = 0
  /\ ticks = 0
  /\ timedOut = FALSE
  /\ allDown = FALSE

\* ----------------------------------------------------------------- actions
\* exit(code) at source line `line`.
Exit(code, line) ==
  /\ pc' = "done"
  /\ exitCode' = code
  /\ exitLine' = line

\* subprocess.check_output raises CalledProcessError when virsh returns a
\* non-zero status; nothing catches it, the interpreter prints the traceback
\* and ends the process.
QueryRaises ==
  /\ listCalls' = listCalls + 1
  /\ Exit(UncaughtExit, LineQuery)

\* Line 43: running_vms = list_running_vms(); lines 46-52 only print.
ListInitial ==
  /\ pc = "list"
  /\ \/ /\ \E names \in FirstLists :
             /\ running_vms' = list_running_vms(names)
             /\ initial_vms' = list_running_vms(names)
          /\ listCalls' = listCalls + 1
          /\ any_errors' = FALSE
          /\ vm_i' = 1
          /\ pc' = "dispatch"
          /\ UNCHANGED <<exitCode, exitLine>>
     \/ /\ QueryRaises
        /\ UNCHANGED <<running_vms, initial_vms, any_errors, vm_i>>
  /\ UNCHANGED <<options, now, t0, t, shutdownCount, shutdownFailed,
                 destroyCount, destroyFailed, sleeps, ticks, timedOut, allDown>>

\* Mutant of Shutdown: the loop is left at the first failing request.
ShutdownBreakOnError ==
  /\ pc = "dispatch"
  /\ vm_i <= Len(running_vms)
  /\ LET vm == running_vms[vm_i]
     IN  \E ok \in ReturnCodes :
           /\ shutdownCount' = [shutdownCount EXCEPT ![vm] = @ + 1]
           /\ IF ok # 0
                THEN /\ any_errors' = TRUE
                     /\ shutdownFailed' = shutdownFailed \cup {vm}
                     /\ vm_i' = Len(running_vms) + 1
                ELSE /\ vm_i' = vm_i + 1
                     /\ UNCHANGED <<any_errors, shutdownFailed>>
  /\ UNCHANGED <<pc, options, running_vms, now, t0, t, exitCode, exitLine,
                 initial_vms, destroyCount, destroyFailed, listCalls, sleeps,
                 ticks, timedOut, allDown>>

\* Lines 53-60: one iteration of the loop sending 'virsh shutdown'.
Shutdown ==
  /\ pc = "dispatch"
  /\ vm_i <= Len(running_vms)
  /\ LET vm == running_vms[vm_i]
     IN  \E ok \in ReturnCodes :
           /\ shutdownCount' = [shutdownCount EXCEPT ![vm] = @ + 1]
           /\ IF ok # 0
                THEN /\ any_errors' = TRUE
                     /\ shutdownFailed' = shutdownFailed \cup {vm}
                ELSE UNCHANGED <<any_errors, shutdownFailed>>
  /\ vm_i' = vm_i + 1
  /\ UNCHANGED <<pc, options, running_vms, now, t0, t, exitCode, exitLine,
                 initial_vms, destroyCount, destroyFailed, listCalls, sleeps,
                 ticks, timedOut, allDown>>

\* Mutant of DispatchDone: the poll loop starts whatever any_errors says.
DispatchDoneIgnoresErrors ==
  /\ pc = "dispatch"
  /\ vm_i > Len(running_vms)
  /\ t0' = now
  /\ pc' = "poll"
  /\ UNCHANGED <<exitCode, exitLine>>
  /\ UNCHANGED <<options, running_vms, any_errors, vm_i, now, t, initial_vms,
                 shutdownCount, shutdownFailed, destroyCount, destroyFailed,
                 listCalls, sleeps, ticks, timedOut, allDown>>

\* Lines 63-68: after the loop, exit(3) on any error, else t0 = time.time().
DispatchDone ==
  /\ pc = "dispatch"
  /\ vm_i > Len(running_vms)
  /\ IF any_errors
       THEN /\ Exit(3, LineDispatchExit)
            /\ UNCHANGED t0
       ELSE /\ t0' = now
            /\ pc' = "poll"
            /\ UNCHANGED <<exitCode, exitLine>>
  /\ UNCHANGED <<options, running_vms, any_errors, vm_i, now, t, initial_vms,
                 shutdownCount, shutdownFailed, destroyCount, destroyFailed,
                 listCalls, sleeps, ticks, timedOut, allDown>>

\* Mutant of Tick: the deadline is evaluated before the emptiness of
\* running_vms, so an empty list met after the deadline is a timeout.
TickDeadlineFirst ==
  /\ pc = "poll"
  /\ t' = now - t0
  /\ IF running_vms = <<>>
       THEN /\ allDown' = TRUE
            /\ UNCHANGED <<ticks, timedOut, vm_i>>
            /\ IF t' > options.timeout /\ ~options.kill
                 THEN Exit(1, LineTimeoutExit)
                 ELSE /\ pc' = "finish"
                      /\ UNCHANGED <<exitCode, exitLine>>
       ELSE /\ ticks' = ticks + 1
            /\ UNCHANGED allDown
            /\ IF t' > options.timeout
                 THEN /\ timedOut' = TRUE
                      /\ IF options.kill
                           THEN /\ pc' = "destroy"
                                /\ vm_i' = 1
                                /\ UNCHANGED <<exitCode, exitLine>>
                           ELSE /\ Exit(1, LineTimeoutExit)
                                /\ UNCHANGED vm_i
                 ELSE /\ pc' = "sleep"
                      /\ UNCHANGED <<timedOut, vm_i, exitCode, exitLine>>
  /\ UNCHANGED <<options, running_vms, any_errors, now, t0, initial_vms,
                 shutdownCount, shutdownFailed, destroyCount, destroyFailed,
                 listCalls, sleeps>>

\* Mutant of Tick: the timeout branch kills without testing options.kill.
TickKillsAlways ==
  /\ pc = "poll"
  /\ IF running_vms = <<>>
       THEN /\ allDown' = TRUE
            /\ pc' = "finish"
            /\ UNCHANGED <<t, ticks, timedOut, vm_i, exitCode, exitLine>>
       ELSE /\ t' = now - t0
            /\ ticks' = ticks + 1
            /\ UNCHANGED allDown
            /\ IF t' > options.timeout
                 THEN /\ timedOut' = TRUE
                      /\ pc' = "destroy"
                      /\ vm_i' = 1
                      /\ UNCHANGED <<exitCode, exitLine>>
                 ELSE /\ pc' = "sleep"
                      /\ UNCHANGED <<timedOut, vm_i, exitCode, exitLine>>
  /\ UNCHANGED <<options, running_vms, any_errors, now, t0, initial_vms,
                 shutdownCount, shutdownFailed, destroyCount, destroyFailed,
                 listCalls, sleeps>>

\* Mutant of Tick: t is computed after the deadline test, which therefore
\* compares the elapsed time of the previous tick.
TickStaleElapsed ==
  /\ pc = "poll"
  /\ IF running_vms = <<>>
       THEN /\ allDown' = TRUE
            /\ pc' = "finish"
            /\ UNCHANGED <<t, ticks, timedOut, vm_i, exitCode, exitLine>>
       ELSE /\ t' = now - t0
            /\ ticks' = ticks + 1
            /\ UNCHANGED allDown
            /\ IF t > options.timeout
                 THEN /\ timedOut' = TRUE
                      /\ IF options.kill
                           THEN /\ pc' = "destroy"
                                /\ vm_i' = 1
                                /\ UNCHANGED <<exitCode, exitLine>>
                           ELSE /\ Exit(1, LineTimeoutExit)
                                /\ UNCHANGED vm_i
                 ELSE /\ pc' = "sleep"
                      /\ UNCHANGED <<timedOut, vm_i, exitCode, exitLine>>
  /\ UNCHANGED <<options, running_vms, any_errors, now, t0, initial_vms,
                 shutdownCount, shutdownFailed, destroyCount, destroyFailed,
                 listCalls, sleeps>>

\* Mutant of Tick: the deadline test is 't >= options.timeout'.
TickTimeoutAtEqual ==
  /\ pc = "poll"
  /\ IF running_vms = <<>>
       THEN /\ allDown' = TRUE
            /\ pc' = "finish"
            /\ UNCHANGED <<t, ticks, timedOut, vm_i, exitCode, exitLine>>
       ELSE /\ t' = now - t0
            /\ ticks' = ticks + 1
            /\ UNCHANGED allDown
            /\ IF t' >= options.timeout
                 THEN /\ timedOut' = TRUE
                      /\ IF options.kill
                           THEN /\ pc' = "destroy"
                                /\ vm_i' = 1
                                /\ UNCHANGED <<exitCode, exitLine>>
                           ELSE /\ Exit(1, LineTimeoutExit)
                                /\ UNCHANGED vm_i
                 ELSE /\ pc' = "sleep"
                      /\ UNCHANGED <<timedOut, vm_i, exitCode, exitLine>>
  /\ UNCHANGED <<options, running_vms, any_errors, now, t0, initial_vms,
                 shutdownCount, shutdownFailed, destroyCount, destroyFailed,
                 listCalls, sleeps>>

\* Lines 69-84 and 97-99: the loop condition and the body up to the sleep.
Tick ==
  /\ pc = "poll"
  /\ IF running_vms = <<>>
       THEN /\ allDown' = TRUE
            /\ pc' = "finish"
            /\ UNCHANGED <<t, ticks, timedOut, vm_i, exitCode, exitLine>>
       ELSE /\ t' = now - t0
            /\ ticks' = ticks + 1
            /\ UNCHANGED allDown
            /\ IF t' > options.timeout
                 THEN /\ timedOut' = TRUE
                      /\ IF options.kill
                           THEN /\ pc' = "destroy"
                                /\ vm_i' = 1
                                /\ UNCHANGED <<exitCode, exitLine>>
                           ELSE /\ Exit(1, LineTimeoutExit)
                                /\ UNCHANGED vm_i
                 ELSE /\ pc' = "sleep"
                      /\ UNCHANGED <<timedOut, vm_i, exitCode, exitLine>>
  /\ UNCHANGED <<options, running_vms, any_errors, now, t0, initial_vms,
                 shutdownCount, shutdownFailed, destroyCount, destroyFailed,
                 listCalls, sleeps>>

\* Mutant of Sleep: the call returns at once, the clock does not advance.
SleepReturnsAtOnce ==
  /\ pc = "sleep"
  /\ sleeps < MaxSleeps
  /\ now' = now
  /\ sleeps' = sleeps + 1
  /\ pc' = "requery"
  /\ UNCHANGED <<options, running_vms, any_errors, vm_i, t0, t, exitCode,
                 exitLine, initial_vms, shutdownCount, shutdownFailed,
                 destroyCount, destroyFailed, listCalls, ticks, timedOut,
                 allDown>>

\* Line 101: time.sleep(options.interval) suspends for at least the interval.
Sleep ==
  /\ pc = "sleep"
  /\ sleeps < MaxSleeps
  /\ \E over \in 0..MaxOversleep : now' = now + options.interval + over
  /\ sleeps' = sleeps + 1
  /\ pc' = "requery"
  /\ UNCHANGED <<options, running_vms, any_errors, vm_i, t0, t, exitCode,
                 exitLine, initial_vms, shutdownCount, shutdownFailed,
                 destroyCount, destroyFailed, listCalls, ticks, timedOut,
                 allDown>>

\* Mutant of SleepExact: the script sleeps twice per tick.
SleepExactTwice ==
  /\ pc = "sleep"
  /\ sleeps < MaxSleeps
  /\ now' = now + 2 * options.interval
  /\ sleeps' = sleeps + 1
  /\ pc' = "requery"
  /\ UNCHANGED <<options, running_vms, any_errors, vm_i, t0, t, exitCode,
                 exitLine, initial_vms, shutdownCount, shutdownFailed,
                 destroyCount, destroyFailed, listCalls, ticks, timedOut,
                 allDown>>

\* Line 101 on a system where the sleep lasts exactly options.interval and
\* nothing else takes time.
SleepExact ==
  /\ Sleep
  /\ now' = now + options.interval

\* Line 102: running_vms = list_running_vms().
Requery ==
  /\ pc = "requery"
  /\ \/ /\ \E names \in InjectiveSeqs :
             running_vms' = list_running_vms(names)
        /\ listCalls' = listCalls + 1
        /\ pc' = "poll"
        /\ UNCHANGED <<exitCode, exitLine>>
     \/ /\ QueryRaises
        /\ UNCHANGED running_vms
  /\ UNCHANGED <<options, any_errors, vm_i, now, t0, t, initial_vms,
                 shutdownCount, shutdownFailed, destroyCount, destroyFailed,
                 sleeps, ticks, timedOut, allDown>>

\* Mutant of Destroy: the test of the return code is inverted.
DestroyInvertedTest ==
  /\ pc = "destroy"
  /\ vm_i <= Len(running_vms)
  /\ LET vm == running_vms[vm_i]
     IN  \E ok \in ReturnCodes :
           /\ destroyCount' = [destroyCount EXCEPT ![vm] = @ + 1]
           /\ IF ok # 0
                THEN /\ destroyFailed' = destroyFailed \cup {vm}
                     /\ UNCHANGED any_errors
                ELSE /\ any_errors' = TRUE
                     /\ UNCHANGED destroyFailed
  /\ vm_i' = vm_i + 1
  /\ UNCHANGED <<pc, options, running_vms, now, t0, t, exitCode, exitLine,
                 initial_vms, shutdownCount, shutdownFailed, listCalls, sleeps,
                 ticks, timedOut, allDown>>

\* Mutant of Destroy: any_errors is set inside the 'if options.verbose'.
DestroyFlagsOnlyVerbose ==
  /\ pc = "destroy"
  /\ vm_i <= Len(running_vms)
  /\ LET vm == running_vms[vm_i]
     IN  \E ok \in ReturnCodes :
           /\ destroyCount' = [destroyCount EXCEPT ![vm] = @ + 1]
           /\ IF ok # 0
                THEN /\ any_errors' = (any_errors \/ options.verbose)
                     /\ destroyFailed' = destroyFailed \cup {vm}
                ELSE UNCHANGED <<any_errors, destroyFailed>>
  /\ vm_i' = vm_i + 1
  /\ UNCHANGED <<pc, options, running_vms, now, t0, t, exitCode, exitLine,
                 initial_vms, shutdownCount, shutdownFailed, listCalls, sleeps,
                 ticks, timedOut, allDown>>

\* Mutant of Destroy: the loop is left at the first failing request.
DestroyBreakOnError ==
  /\ pc = "destroy"
  /\ vm_i <= Len(running_vms)
  /\ LET vm == running_vms[vm_i]
     IN  \E ok \in ReturnCodes :
           /\ destroyCount' = [destroyCount EXCEPT ![vm] = @ + 1]
           /\ IF ok # 0
                THEN /\ any_errors' = TRUE
                     /\ destroyFailed' = destroyFailed \cup {vm}
                     /\ vm_i' = Len(running_vms) + 1
                ELSE /\ vm_i' = vm_i + 1
                     /\ UNCHANGED <<any_errors, destroyFailed>>
  /\ UNCHANGED <<pc, options, running_vms, now, t0, t, exitCode, exitLine,
                 initial_vms, shutdownCount, shutdownFailed, listCalls, sleeps,
                 ticks, timedOut, allDown>>

\* Mutant of Destroy: the loop runs over the list of the first query.
DestroyInitialSnapshot ==
  /\ pc = "destroy"
  /\ vm_i <= Len(running_vms)
  /\ vm_i <= Len(initial_vms)
  /\ LET vm == initial_vms[vm_i]
     IN  \E ok \in ReturnCodes :
           /\ destroyCount' = [destroyCount EXCEPT ![vm] = @ + 1]
           /\ IF ok # 0
                THEN /\ any_errors' = TRUE
                     /\ destroyFailed' = destroyFailed \cup {vm}
                ELSE UNCHANGED <<any_errors, destroyFailed>>
  /\ vm_i' = vm_i + 1
  /\ UNCHANGED <<pc, options, running_vms, now, t0, t, exitCode, exitLine,
                 initial_vms, shutdownCount, shutdownFailed, listCalls, sleeps,
                 ticks, timedOut, allDown>>

\* Lines 85-93: one iteration of the loop sending 'virsh destroy'.
Destroy ==
  /\ pc = "destroy"
  /\ vm_i <= Len(running_vms)
  /\ LET vm == running_vms[vm_i]
     IN  \E ok \in ReturnCodes :
           /\ destroyCount' = [destroyCount EXCEPT ![vm] = @ + 1]
           /\ IF ok # 0
                THEN /\ any_errors' = TRUE
                     /\ destroyFailed' = destroyFailed \cup {vm}
                ELSE UNCHANGED <<any_errors, destroyFailed>>
  /\ vm_i' = vm_i + 1
  /\ UNCHANGED <<pc, options, running_vms, now, t0, t, exitCode, exitLine,
                 initial_vms, shutdownCount, shutdownFailed, listCalls, sleeps,
                 ticks, timedOut, allDown>>

\* Mutant of DestroyDone: the loop is left without testing any_errors.
DestroyDoneIgnoresErrors ==
  /\ pc = "destroy"
  /\ vm_i > Len(running_vms)
  /\ pc' = "finish"
  /\ UNCHANGED <<exitCode, exitLine>>
  /\ UNCHANGED <<options, running_vms, any_errors, vm_i, now, t0, t,
                 initial_vms, shutdownCount, shutdownFailed, destroyCount,
                 destroyFailed, listCalls, sleeps, ticks, timedOut, allDown>>

\* Mutant of DestroyDone: the 'break' of line 100 is missing, the loop goes
\* on with the sleep.
DestroyDoneNoBreak ==
  /\ pc = "destroy"
  /\ vm_i > Len(running_vms)
  /\ IF any_errors
       THEN Exit(3, LineDestroyExit)
       ELSE /\ pc' = "sleep"
            /\ UNCHANGED <<exitCode, exitLine>>
  /\ UNCHANGED <<options, running_vms, any_errors, vm_i, now, t0, t,
                 initial_vms, shutdownCount, shutdownFailed, destroyCount,
                 destroyFailed, listCalls, sleeps, ticks, timedOut, allDown>>

\* Lines 94-96 and 100: after the loop, exit(3) on any error, else break.
DestroyDone ==
  /\ pc = "destroy"
  /\ vm_i > Len(running_vms)
  /\ IF any_errors
       THEN Exit(3, LineDestroyExit)
       ELSE /\ pc' = "finish"
            /\ UNCHANGED <<exitCode, exitLine>>
  /\ UNCHANGED <<options, running_vms, any_errors, vm_i, now, t0, t,
                 initial_vms, shutdownCount, shutdownFailed, destroyCount,
                 destroyFailed, listCalls, sleeps, ticks, timedOut, allDown>>

\* Lines 104-107: the success message and exit(0).
Finish ==
  /\ pc = "finish"
  /\ Exit(0, LineSuccessExit)
  /\ UNCHANGED <<options, running_vms, any_errors, vm_i, now, t0, t,
                 initial_vms, shutdownCount, shutdownFailed, destroyCount,
                 destroyFailed, listCalls, sleeps, ticks, timedOut, allDown>>

Next ==
  \/ ListInitial
  \/ Shutdown
  \/ DispatchDone
  \/ Tick
  \/ Sleep
  \/ Requery
  \/ Destroy
  \/ DestroyDone
  \/ Finish

Spec == Init /\ [][Next]_vars

\* The process is scheduled until it ends: every enabled step is taken.
FairSpec == Spec /\ WF_vars(Next)

\* time.time() (lines 68 and 71) reads the system's wall clock, which an
\* administrator or a time synchronisation can set back while the script
\* runs; time.time() then returns a lower value than an earlier call.
ClockSetBack ==
  /\ pc \in {"dispatch", "poll", "sleep", "requery"}
  /\ now > 0
  /\ \E earlier \in 0..(now - 1) : now' = earlier
  /\ UNCHANGED <<pc, options, running_vms, any_errors, vm_i, t0, t, exitCode,
                 exitLine, initial_vms, shutdownCount, shutdownFailed,
                 destroyCount, destroyFailed, listCalls, sleeps, ticks,
                 timedOut, allDown>>

NextWallClock ==
  \/ Next
  \/ ClockSetBack

\* The script on a system whose wall clock may be set back.
SpecWallClock == Init /\ [][NextWallClock]_vars

\* ------------------------------------------------- the script as a function
\* The same script as a function of the program state and of what the
\* environment answers to the step, with the commands it runs and the
\* progress lines it prints: the form in which two runs can be compared.
Cur ==
  [pc |-> pc, options |-> options, running_vms |-> running_vms,
   any_errors |-> any_errors, vm_i |-> vm_i, now |-> now, t0 |-> t0, t |-> t,
   exitCode |-> exitCode]

\* What the environment answers to the step taken in state s: the machines
\* 'virsh list' reports or its failure, the return code of shutdown or
\* destroy, the oversleep.  A step reads the answer of the one call it makes
\* and nothing else.
AnswersAt(s) ==
  CASE s.pc \in {"list", "requery"} ->
         [names : InjectiveSeqs, raises : BOOLEAN, ok : {0}, over : {0}]
    [] s.pc \in {"dispatch", "destroy"} ->
         [names : {<<>>}, raises : {FALSE}, ok : ReturnCodes, over : {0}]
    [] s.pc = "sleep" ->
         [names : {<<>>}, raises : {FALSE}, ok : {0}, over : 0..MaxOversleep]
    [] OTHER ->
         [names : {<<>>}, raises : {FALSE}, ok : {0}, over : {0}]

NoCall == [cmd |-> "none", arg |-> 0, quiet |-> FALSE]

Result(s, call, out) == [state |-> s, call |-> call, out |-> out]

\* Lines 23-25 called from line 43 or 102.
StepList(s, in, nextpc) ==
  LET call == [cmd |-> "list", arg |-> 0, quiet |-> FALSE]
  IN  IF in.raises
        THEN Result([s EXCEPT !.pc = "done", !.exitCode = UncaughtExit], call, <<>>)
        ELSE Result([s EXCEPT !.running_vms = list_running_vms(in.names),
                              !.pc = nextpc], call, <<>>)

\* Lines 53-68.
StepDispatch(s, in) ==
  IF s.vm_i <= Len(s.running_vms)
    THEN LET vm == s.running_vms[s.vm_i]
             call == IF s.options.verbose
                       THEN [cmd |-> "shutdown", arg |-> vm, quiet |-> FALSE]
                       ELSE [cmd |-> "shutdown", arg |-> vm, quiet |-> TRUE]
         IN  Result([s EXCEPT !.any_errors = IF in.ok # 0 THEN TRUE ELSE @,
                              !.vm_i = @ + 1], call, <<>>)
    ELSE IF s.any_errors
           THEN Result([s EXCEPT !.pc = "done", !.exitCode = 3], NoCall, <<>>)
           ELSE Result([s EXCEPT !.t0 = s.now, !.pc = "poll"], NoCall, <<>>)

\* Lines 69-84 and 97-99; out holds the numbers of the zenity lines 73-75.
StepTick(s) ==
  IF s.running_vms = <<>>
    THEN Result([s EXCEPT !.pc = "finish"], NoCall, <<>>)
    ELSE LET elapsed == s.now - s.t0
             out == IF s.options.zenity
                      THEN <<s.options.timeout - elapsed,
                             IF elapsed < s.options.timeout
                               THEN (100 * elapsed) \div s.options.timeout
                               ELSE 99>>
                      ELSE <<>>
         IN  IF elapsed > s.options.timeout
               THEN IF s.options.kill
                      THEN Result([s EXCEPT !.t = elapsed, !.pc = "destroy",
                                            !.vm_i = 1], NoCall, out)
                      ELSE Result([s EXCEPT !.t = elapsed, !.pc = "done",
                                            !.exitCode = 1], NoCall, out)
               ELSE Result([s EXCEPT !.t = elapsed, !.pc = "sleep"], NoCall, out)

\* Line 101.
StepSleep(s, in) ==
  Result([s EXCEPT !.now = @ + s.options.interval + in.over, !.pc = "requery"],
         [cmd |-> "sleep", arg |-> s.options.interval, quiet |-> FALSE], <<>>)

\* Mutant of StepDestroy: any_errors is set inside the 'if options.verbose'.
StepDestroyFlagsOnlyVerbose(s, in) ==
  IF s.vm_i <= Len(s.running_vms)
    THEN LET vm == s.running_vms[s.vm_i]
             call == IF s.options.verbose
                       THEN [cmd |-> "destroy", arg |-> vm, quiet |-> FALSE]
                       ELSE [cmd |-> "destroy", arg |-> vm, quiet |-> TRUE]
         IN  Result([s EXCEPT !.any_errors =
                                 IF in.ok # 0 /\ s.options.verbose THEN TRUE ELSE @,
                              !.vm_i = @ + 1], call, <<>>)
    ELSE IF s.any_errors
           THEN Result([s EXCEPT !.pc = "done", !.exitCode = 3], NoCall, <<>>)
           ELSE Result([s EXCEPT !.pc = "finish"], NoCall, <<>>)

\* Lines 85-96 and 100.
StepDestroy(s, in) ==
  IF s.vm_i <= Len(s.running_vms)
    THEN LET vm == s.running_vms[s.vm_i]
             call == IF s.options.verbose
                       THEN [cmd |-> "destroy", arg |-> vm, quiet |-> FALSE]
                       ELSE [cmd |-> "destroy", arg |-> vm, quiet |-> TRUE]
         IN  Result([s EXCEPT !.any_errors = IF in.ok # 0 THEN TRUE ELSE @,
                              !.vm_i = @ + 1], call, <<>>)
    ELSE IF s.any_errors
           THEN Result([s EXCEPT !.pc = "done", !.exitCode = 3], NoCall, <<>>)
           ELSE Result([s EXCEPT !.pc = "finish"], NoCall, <<>>)

\* Lines 104-107.
StepFinish(s) ==
  Result([s EXCEPT !.pc = "done", !.exitCode = 0], NoCall,
         IF s.options.zenity THEN <<100>> ELSE <<>>)

Step(s, in) ==
  CASE s.pc = "list"     -> StepList([s EXCEPT !.any_errors = FALSE, !.vm_i = 1],
                                     in, "dispatch")
    [] s.pc = "dispatch" -> StepDispatch(s, in)
    [] s.pc = "poll"     -> StepTick(s)
    [] s.pc = "sleep"    -> StepSleep(s, in)
    [] s.pc = "requery"  -> StepList(s, in, "poll")
    [] s.pc = "destroy"  -> StepDestroy(s, in)
    [] s.pc = "finish"   -> StepFinish(s)
    [] OTHER             -> Result(s, NoCall, <<>>)

\* Every step of the script's actions is a step of the function.
StepAgrees == [][\E in \in AnswersAt(Cur) : Cur' = Step(Cur, in).state]_vars

NextExactSleep ==
  \/ ListInitial
  \/ Shutdown
  \/ DispatchDone
  \/ Tick
  \/ SleepExact
  \/ Requery
  \/ Destroy
  \/ DestroyDone
  \/ Finish

\* The script when only the sleep advances the time, by the interval.
SpecExactSleep == Init /\ [][NextExactSleep]_vars

\* ------------------------------------------------------------ type and caps
TypeOK ==
  /\ pc \in {"list", "dispatch", "poll", "sleep", "requery", "destroy",
             "finish", "done"}
  /\ options \in OptionSpace
  /\ running_vms \in InjectiveSeqs
  /\ any_errors \in BOOLEAN
  /\ vm_i \in 1..(NumMachines + 1)
  /\ now \in Nat /\ t0 \in Nat /\ t \in Nat
  /\ exitCode \in {-1, 0, 1, 3}
  /\ sleeps \in 0..MaxSleeps

\* The cap on the sleep count never disables a sleep of the program.
SleepCapUnreached == pc = "sleep" => sleeps < MaxSleeps

\* ------------------------------------------------------------------ claims
Range(s) == {s[i] : i \in 1..Len(s)}

DestroyCalls == {m \in Machines : destroyCount[m] > 0}

\* Exits of the script itself (exit(...) statements).
ScriptExits == {LineDispatchExit, LineDestroyExit, LineTimeoutExit, LineSuccessExit}

\* C1: the dispatch loop sends 'virsh shutdown' exactly once to each machine
\* of the initial list, whatever the return codes: while the loop runs, the
\* machines before the loop position have one request and the others none;
\* once it is over every machine of the initial list has exactly one.
C1_DispatchEachOnce ==
  /\ pc = "dispatch" =>
       \A m \in Machines :
         shutdownCount[m] =
           IF m \in Range(SubSeq(initial_vms, 1, vm_i - 1)) THEN 1 ELSE 0
  /\ pc \notin {"list", "dispatch"} =>
       \A m \in Machines :
         shutdownCount[m] = IF m \in Range(initial_vms) THEN 1 ELSE 0

C1_Witness ==
  /\ pc \notin {"list", "dispatch"}
  /\ Len(initial_vms) >= 2
  /\ initial_vms[1] \in shutdownFailed
  /\ shutdownCount[initial_vms[2]] = 1

C3_AllDownIsSuccess ==
  (allDown /\ ~timedOut) =>
     /\ pc \in {"finish", "done"}
     /\ pc = "done" => (exitCode = 0 /\ exitLine = LineSuccessExit)
     /\ DestroyCalls = {}

C3_Witness ==
  /\ allDown
  /\ pc = "done"
  /\ exitCode = 0
  /\ options.kill
  /\ initial_vms # <<>>
  /\ sleeps >= 2
  /\ t0 + options.timeout < now

C5_ForcedOffIsSuccess ==
  (timedOut /\ options.kill /\ pc = "done" /\ destroyFailed = {}) =>
     (exitCode = 0 /\ exitLine = LineSuccessExit)

C5_Witness ==
  /\ timedOut
  /\ options.kill
  /\ pc = "done"
  /\ destroyFailed = {}
  /\ Len(running_vms) >= 2
  /\ Range(running_vms) = DestroyCalls

\* C6: a timeout seen with kill-on-timeout on, some 'virsh destroy'
\* returning an error, ends the run with exit(3) at line 96, whatever the
\* verbose and zenity options are.
C6_ForceFailed ==
  (timedOut /\ options.kill /\ pc = "done" /\ destroyFailed # {}) =>
     (exitCode = 3 /\ exitLine = LineDestroyExit)

C6_Witness ==
  /\ timedOut
  /\ options.kill
  /\ ~options.verbose
  /\ ~options.zenity
  /\ pc = "done"
  /\ destroyFailed # {}
  /\ Range(running_vms) \ destroyFailed # {}

\* C7: exit status 0 means all machines are accounted for: the latest list
\* is empty, or each of its machines got a 'virsh destroy' that returned 0.
C7_ExitZeroAccounted ==
  exitCode = 0 =>
     \/ running_vms = <<>>
     \/ \A m \in Range(running_vms) :
          destroyCount[m] >= 1 /\ m \notin destroyFailed

C7_Witness ==
  /\ exitCode = 0
  /\ running_vms # <<>>
  /\ initial_vms # running_vms

\* C8: no error escapes: every run ends at one of the exit statements of
\* the script, with status 0, 1 or 3, also when a 'virsh list' fails.
C8_NoErrorEscapes ==
  pc = "done" => (exitLine \in ScriptExits /\ exitCode \in {0, 1, 3})

\* C9: the exit status is the one the header comment documents: 1 after a
\* failed 'virsh shutdown', 2 on timeout without kill-on-timeout, 3 on
\* timeout with kill-on-timeout and a failed 'virsh destroy'.
C9_HeaderExitCodes ==
  pc = "done" =>
     /\ shutdownFailed # {} => exitCode = 1
     /\ (timedOut /\ ~options.kill) => exitCode = 2
     /\ (timedOut /\ options.kill /\ destroyFailed # {}) => exitCode = 3

\* C10: every run ends, also when the machines never stop.
C10_Terminates == <>(pc = "done")

C10_Witness ==
  /\ pc = "done"
  /\ timedOut
  /\ initial_vms # <<>>
  /\ running_vms = initial_vms
  /\ sleeps >= 2

\* C11: the destroy loop sends 'virsh destroy' exactly once to each machine
\* of the list held on the timed-out tick, whatever the return codes: while
\* it runs, the machines before the loop position have one request and the
\* others none; once it is over every machine of that list has exactly one.
\* A 'virsh destroy' is only ever sent after a timeout seen with
\* kill-on-timeout on.
C11_DestroyEachOnce ==
  /\ DestroyCalls # {} => (timedOut /\ options.kill)
  /\ pc = "destroy" =>
       \A m \in Machines :
         destroyCount[m] =
           IF m \in Range(SubSeq(running_vms, 1, vm_i - 1)) THEN 1 ELSE 0
  /\ (timedOut /\ options.kill /\ pc \in {"finish", "done"}) =>
       \A m \in Machines :
         destroyCount[m] = IF m \in Range(running_vms) THEN 1 ELSE 0

C11_Witness ==
  /\ timedOut
  /\ options.kill
  /\ pc = "done"
  /\ Len(running_vms) >= 2
  /\ running_vms[1] \in destroyFailed
  /\ destroyCount[running_vms[2]] = 1

\* C12: once a 'virsh destroy' has been sent, the run neither sleeps nor
\* lists the running machines again.
C12_NoPollAfterForce ==
  [][DestroyCalls # {} => (sleeps' = sleeps /\ listCalls' = listCalls)]_vars

C12_Witness ==
  /\ pc = "done"
  /\ DestroyCalls # {}
  /\ destroyFailed = {}
  /\ sleeps >= 1

\* C13: the deadline is tested before the sleep of the same tick: a sleep
\* or the re-query after it is only reached with a measured elapsed time
\* t <= options.timeout (which is the time elapsed when the sleep starts)
\* and with no timeout seen, and the tick that sees the timeout neither
\* sleeps nor lists the running machines.
C13_DeadlineBeforeSleep ==
  /\ [](pc = "sleep" =>
          (t <= options.timeout /\ now - t0 <= options.timeout /\ ~timedOut))
  /\ [](pc = "requery" => (t <= options.timeout /\ ~timedOut))
  /\ [][(~timedOut /\ timedOut') =>
          (sleeps' = sleeps /\ listCalls' = listCalls
           /\ pc' \in {"destroy", "done"})]_vars

C13_Witness ==
  /\ timedOut
  /\ pc = "destroy"
  /\ sleeps >= 1
  /\ running_vms # <<>>
  /\ t > options.timeout

\* C14: a tick that finds machines running with elapsed <= timeout, the
\* equality included, goes to the sleep and sends no 'virsh shutdown' and
\* no 'virsh destroy'; the sleep is one time.sleep call that lasts at least
\* options.interval, followed by one 'virsh list' before the next tick (so
\* that sleeps, list calls and ticks advance together).
C14_PollingTick ==
  /\ [][(pc = "poll" /\ running_vms # <<>> /\ now - t0 <= options.timeout) =>
          (pc' = "sleep" /\ ticks' = ticks + 1
           /\ UNCHANGED <<shutdownCount, destroyCount, sleeps, listCalls, now>>)]_vars
  /\ [][pc = "sleep" =>
          (pc' = "requery" /\ sleeps' = sleeps + 1
           /\ now' >= now + options.interval
           /\ UNCHANGED <<shutdownCount, destroyCount, listCalls, ticks>>)]_vars
  /\ [][pc = "requery" =>
          (pc' \in {"poll", "done"} /\ listCalls' = listCalls + 1
           /\ UNCHANGED <<shutdownCount, destroyCount, sleeps, ticks, now>>)]_vars
  /\ [](pc = "poll" => (sleeps = ticks /\ listCalls = ticks + 1))
  /\ [](pc = "sleep" => (sleeps = ticks - 1 /\ listCalls = ticks))
  /\ [](pc = "requery" => (sleeps = ticks /\ listCalls = ticks))

C14_Witness ==
  /\ pc = "poll"
  /\ ticks >= 1
  /\ options.timeout > 0
  /\ t = options.timeout
  /\ running_vms # <<>>

\* C15: the elapsed time of every tick is measured from the one time stamp
\* t0 taken before the loop, which is never assigned again, and the elapsed
\* times seen by the successive ticks of a run never decrease.
C15_ElapsedMonotonic ==
  /\ [][pc \notin {"list", "dispatch"} => t0' = t0]_vars
  /\ [][ticks' = ticks + 1 => t' = now - t0]_vars
  /\ [][(ticks >= 1 /\ ticks' = ticks + 1) => t' >= t]_vars

\* C16: the verbose and zenity options do not affect the control flow.
\* From every reachable state and for every answer of the environment, the
\* step of the script and the step of the same state under any other value
\* of verbose and zenity run the same command on the same argument and
\* reach states that differ in these two options only; the actions of the
\* model being steps of that function.  By induction two runs that differ
\* only in verbose and zenity, given the same answers, issue the same
\* sequence of list, shutdown, destroy and sleep calls and exit alike.
C16_FlagsDoNotSteer ==
  /\ [](\A in \in AnswersAt(Cur) : \A v, z \in BOOLEAN :
          LET other == [Cur EXCEPT !.options.verbose = v, !.options.zenity = z]
              a == Step(Cur, in)
              b == Step(other, in)
          IN  /\ a.call.cmd = b.call.cmd
              /\ a.call.arg = b.call.arg
              /\ b.state = [a.state EXCEPT !.options.verbose = v,
                                           !.options.zenity = z])
  /\ [][\E in \in AnswersAt(Cur) : Cur' = Step(Cur, in).state]_vars

C16_Witness ==
  /\ pc = "destroy"
  /\ options.verbose
  /\ options.zenity
  /\ vm_i <= Len(running_vms)
  /\ destroyFailed # {}
  /\ shutdownCount[running_vms[vm_i]] = 1

\* C17: when the first 'virsh list' reports no machine, the run sends no
\* 'virsh shutdown' (the dispatch loop has nothing to run over), executes
\* no tick, no sleep, no further 'virsh list' and no 'virsh destroy', and
\* ends with exit(0).
C17_EmptyInitialSet ==
  (pc # "list" /\ exitLine # LineQuery /\ Range(initial_vms) \cap Machines = {}) =>
     /\ pc \in {"dispatch", "poll", "finish", "done"}
     /\ pc = "dispatch" => vm_i > Len(running_vms)
     /\ \A m \in Machines : shutdownCount[m] = 0
     /\ ticks = 0 /\ sleeps = 0 /\ listCalls = 1
     /\ DestroyCalls = {}
     /\ pc = "done" => (exitCode = 0 /\ exitLine = LineSuccessExit)

C17_Witness ==
  /\ pc = "done"
  /\ initial_vms = <<>>
  /\ listCalls = 1
  /\ exitCode = 0
  /\ allDown

\* C18: the emptiness of running_vms is tested before the deadline: a
\* timeout is never seen on an empty list, and a run whose latest
\* 'virsh list' reported no machine ends with exit(0), also when the
\* elapsed time is beyond the timeout at that moment.
C18_EmptinessFirst ==
  /\ timedOut => running_vms # <<>>
  /\ (pc \in {"finish", "done"} /\ running_vms = <<>> /\ exitLine # LineQuery) =>
        /\ allDown
        /\ ~timedOut
        /\ pc = "done" => (exitCode = 0 /\ exitLine = LineSuccessExit)

C18_Witness ==
  /\ pc = "done"
  /\ allDown
  /\ exitCode = 0
  /\ ~options.kill
  /\ sleeps >= 1
  /\ now - t0 > options.timeout

\* C19: when only the sleep advances the time, by options.interval, the
\* ticks before the timeout see t <= timeout, the tick that sees the timeout
\* measures timeout < t <= timeout + interval, and a run sleeps at most
\* floor(timeout / interval) + 1 times.
C19_OvershootBound ==
  /\ (ticks >= 1 /\ ~timedOut) => t <= options.timeout
  /\ timedOut =>
       (t > options.timeout /\ t <= options.timeout + options.interval)
  /\ sleeps <= (options.timeout \div options.interval) + 1

C19_Witness ==
  /\ timedOut
  /\ options.interval >= 2
  /\ options.timeout >= 1
  /\ t = options.timeout + options.interval
  /\ sleeps = (options.timeout \div options.interval) + 1
  /\ running_vms = initial_vms

\* C20: 'virsh shutdown' is only sent in the dispatch loop and only to the
\* machines of the first list: after that loop the counts of shutdown
\* requests never change, whatever machines later lists report; and
\* 'virsh destroy' is sent to machines of the latest list only (which may
\* hold a machine that never got a shutdown request, see the witness).
C20_ShutdownOnlyInitial ==
  /\ [][pc \notin {"list", "dispatch"} => shutdownCount' = shutdownCount]_vars
  /\ [](\A m \in Machines : shutdownCount[m] > 0 => m \in Range(initial_vms))
  /\ [](DestroyCalls \subseteq Range(running_vms))

C20_Witness ==
  \E m \in DestroyCalls :
     /\ shutdownCount[m] = 0
     /\ m \notin Range(initial_vms)
     /\ initial_vms # <<>>

====
